---------------------------- MODULE Spec2Model ----------------------------
(***************************************************************************)
(* Model of agriculture_monitoring.py: the remote flag store               *)
(* (get_firebase_app, firebase_get_vanne_etat, firebase_set_vanne_etat),   *)
(* the valve section of the dashboard script, the address suggestion       *)
(* lookup and the weather series processing.                               *)
(*                                                                         *)
(* Python values are encoded as strings: None is "None", the booleans are  *)
(* "True" and "False", the default Firebase app handle is "app".           *)
(***************************************************************************)
EXTENDS Integers, Sequences, FiniteSets, TLC

VARIABLES
    \* ---- environment of the remote flag store
    credFile,        \* the file at FIREBASE_CREDENTIALS_PATH: absent, invalid or valid
    sdk,             \* whether firebase_admin can be imported in this process
    fb_apps,         \* firebase_admin._apps: the apps registered in the process
    vanne,           \* the remote node /vanne: field name -> stored value
    \* ---- module globals of the script
    firebase_app,    \* _firebase_app
    firebase_error,  \* _firebase_error
    \* ---- history of the store's calls
    initCount,       \* successful firebase_admin.initialize_app calls so far
    initCred,        \* state of the credential file when initialize_app succeeded
    reinit,          \* initialize_app was invoked while the default app existed
    last,            \* the last call on the store and its outcome
    prev,            \* the call before it
    \* ---- the dashboard script (valve section)
    pc,              \* position of the script run
    firebase_ok,     \* line 489
    etat_actuel,     \* line 500-502
    nouveau_etat,    \* line 510
    toggle_value,    \* the value= argument given to st.toggle at line 510
    ss_vanne_etat,   \* st.session_state.vanne_etat ("unset" while not in session)
    render,          \* what the current script run has done to the store so far
    \* ---- the address lookup
    address_query,        \* st.session_state.address_query
    address_suggestions,  \* st.session_state.address_suggestions
    geo,                  \* the last suggestion lookup and its outcome
    \* ---- the weather series
    api_data,        \* the raw record handed to process_meteo_data
    df,              \* what process_meteo_data returned
    upstream,        \* what the weather service answers to the next request
    fetched,         \* the call of fetch_open_meteo_data of this run and its outcome
    \* ---- the sidebar: history period (dates are day numbers)
    today,           \* datetime.now().date()
    date_end,        \* what the "Date de fin" picker returned, line 327
    date_start,      \* what the "Date de début" picker returned, line 333
    period,          \* the period the last script run passed to the fetch
    \* ---- the sidebar: location (coordinates are in tenths of a degree)
    latitude,        \* st.session_state.latitude
    longitude,       \* st.session_state.longitude
    loc              \* what the location block of the last script run did

storeVars == <<credFile, sdk, fb_apps, vanne, firebase_app, firebase_error,
               initCount, initCred, reinit, last, prev>>
dashVars == <<pc, firebase_ok, etat_actuel, nouveau_etat, toggle_value,
              ss_vanne_etat, render>>
geoVars == <<address_query, address_suggestions, geo>>
meteoVars == <<api_data, df, upstream, fetched>>
dateVars == <<today, date_end, date_start, period>>
locVars == <<latitude, longitude, loc>>
sidebarVars == <<dateVars, locVars>>
vars == <<storeVars, dashVars, geoVars, meteoVars, sidebarVars>>

NONE == "None"
Bools == {"True", "False"}
CredStates == {"absent", "invalid", "valid"}
\* the children of /vanne: the flag and any other child the node may hold
Fields == {"etat", "autre"}
FlagValues == Bools \cup {NONE}

(***************************************************************************)
(* get_firebase_app                                                        *)
(***************************************************************************)

\* os.path.isfile(FIREBASE_CREDENTIALS_PATH)
IsFile(cred) == cred # "absent"

\* `if firebase_admin._apps:`
AppsRegisteredNever(apps) == FALSE
AppsRegistered(apps) == apps # {}

\* `except Exception`: every exception of the try body is caught
ExceptException(exc) == TRUE

\* firebase_admin.initialize_app(cred, options) for the default app name:
\* raises ValueError when the default app already exists
InitializeApp(apps) ==
    IF "app" \in apps
    THEN [exc |-> TRUE, app |-> NONE, apps |-> apps, inits |-> 0, reinit |-> TRUE]
    ELSE [exc |-> FALSE, app |-> "app", apps |-> apps \cup {"app"}, inits |-> 1,
          reinit |-> FALSE]

\* the try body of get_firebase_app
InitBody(apps, cred, sdkOk) ==
    LET raise == [exc |-> TRUE, app |-> NONE, apps |-> apps, inits |-> 0,
                  reinit |-> FALSE]
    IN  IF ~sdkOk THEN raise                       \* import firebase_admin fails
        ELSE IF AppsRegistered(apps)
        THEN [exc |-> FALSE, app |-> "app", apps |-> apps, inits |-> 0,
              reinit |-> FALSE]                    \* firebase_admin.get_app()
        ELSE IF cred # "valid" THEN raise          \* credentials.Certificate raises
        ELSE InitializeApp(apps)

GetFirebaseAppNoFileCheck(app, err, apps, cred, sdkOk) ==
    LET b == InitBody(apps, cred, sdkOk)
    IN  IF app # NONE
        THEN [ret |-> app, app |-> app, err |-> err, apps |-> apps, inits |-> 0,
              reinit |-> FALSE, raised |-> FALSE]
        ELSE IF b.exc
        THEN [ret |-> NONE, app |-> NONE, err |-> "exception", apps |-> b.apps,
              inits |-> b.inits, reinit |-> b.reinit, raised |-> FALSE]
        ELSE [ret |-> b.app, app |-> b.app, err |-> NONE, apps |-> b.apps,
              inits |-> b.inits, reinit |-> b.reinit, raised |-> FALSE]

GetFirebaseApp(app, err, apps, cred, sdkOk) ==
    LET b == InitBody(apps, cred, sdkOk)
    IN  IF app # NONE
        THEN [ret |-> app, app |-> app, err |-> err, apps |-> apps, inits |-> 0,
              reinit |-> FALSE, raised |-> FALSE]
        ELSE IF ~IsFile(cred)
        THEN [ret |-> NONE, app |-> NONE, err |-> "introuvable", apps |-> apps,
              inits |-> 0, reinit |-> FALSE, raised |-> FALSE]
        ELSE IF b.exc
        THEN [ret |-> IF ExceptException(b.exc) THEN NONE ELSE "raised",
              app |-> NONE,
              err |-> IF ExceptException(b.exc) THEN "exception" ELSE NONE,
              apps |-> b.apps, inits |-> b.inits, reinit |-> b.reinit,
              raised |-> ~ExceptException(b.exc)]
        ELSE [ret |-> b.app, app |-> b.app, err |-> NONE, apps |-> b.apps,
              inits |-> b.inits, reinit |-> b.reinit, raised |-> FALSE]

(***************************************************************************)
(* firebase_get_vanne_etat / firebase_set_vanne_etat                       *)
(***************************************************************************)

\* db.reference("/vanne/etat"): the child of /vanne that the read addresses
ReadField == "etat"

\* db.reference("/vanne").update({"etat": etat}): the child the write addresses
WriteFieldOther == "autre"
WriteField == "etat"

\* the outcomes of one remote operation: done and answered, refused or
\* unreachable (raises, nothing stored), stored but the answer lost (raises)
NetRead == {"ok", "fail"}
NetWrite == {"ok", "fail", "lost"}

\* what the except clause of firebase_set_vanne_etat returns
SetExceptReturnTrue == "True"
SetExceptReturn == "False"

\* what the except clause of firebase_get_vanne_etat returns
GetExceptReturnFalse == "False"
GetExceptReturn == NONE

FirebaseGetVanneEtat(app, err, apps, cred, sdkOk, node, net) ==
    LET g == GetFirebaseApp(app, err, apps, cred, sdkOk)
        remote == ~g.raised /\ g.ret # NONE       \* ref.get() is issued
        exc == g.raised \/ (remote /\ net # "ok")
    IN  IF exc
        THEN [ret |-> IF ExceptException(exc) THEN GetExceptReturn ELSE "raised",
              raised |-> ~ExceptException(exc), g |-> g, remote |-> remote]
        ELSE IF g.ret = NONE
        THEN [ret |-> NONE, raised |-> FALSE, g |-> g, remote |-> FALSE]
        ELSE [ret |-> node[ReadField], raised |-> FALSE, g |-> g, remote |-> TRUE]

FirebaseSetVanneEtat(app, err, apps, cred, sdkOk, node, etat, net) ==
    LET g == GetFirebaseApp(app, err, apps, cred, sdkOk)
        remote == ~g.raised /\ g.ret # NONE       \* ref.update() is issued
        exc == g.raised \/ (remote /\ net # "ok")
        stored == [node EXCEPT ![WriteField] = etat]
    IN  IF exc
        THEN [ret |-> IF ExceptException(exc) THEN SetExceptReturn ELSE "raised",
              raised |-> ~ExceptException(exc), g |-> g,
              node |-> IF remote /\ net = "lost" THEN stored ELSE node,
              remote |-> remote]
        ELSE IF g.ret = NONE
        THEN [ret |-> "False", raised |-> FALSE, g |-> g, node |-> node,
              remote |-> FALSE]
        ELSE [ret |-> "True", raised |-> FALSE, g |-> g, node |-> stored,
              remote |-> TRUE]

(***************************************************************************)
(* search_address_suggestions                                              *)
(***************************************************************************)

MaxQueryLen == 3
MaxResults == 2

Chars == {"a"}
Queries == UNION {[1..n -> Chars] : n \in 0..MaxQueryLen}

\* the raw fields of one candidate of the lookup service's answer: a numeric
\* string, a string that is no number, JSON null, or the key missing
RawLat == {"48", "95", "abc", "null", "missing"}
RawLon == {"2", "abc", "missing"}
RawName == {"Orleans", "missing"}

\* float(s) of a numeric string
IsNumeric(s) == s \in {"48", "95", "2"}
Float(s) == CASE s = "48" -> 48 [] s = "95" -> 95 [] s = "2" -> 2

\* the exception `result[key]` and float() raise on a raw field, "none" if none
FieldError(s) ==
    CASE s = "missing" -> "KeyError"
      [] s = "null" -> "TypeError"
      [] ~IsNumeric(s) -> "ValueError"
      [] OTHER -> "none"

RawResults ==
    {r \in [display_name : RawName, lat : RawLat, lon : RawLon] :
        \* one field at a time departs from the candidate ("Orleans", "48", "2")
        /\ (r.lat # "48" => r.lon = "2")
        /\ (r.lat # "48" \/ r.lon # "2") => r.display_name = "Orleans"}

\* what requests.get, raise_for_status and response.json() can produce
FailureKinds == {"Timeout", "ConnectionError", "HTTPError", "JSONDecodeError",
                 "NotAList"}
Responses ==
    {[kind |-> k, data |-> <<>>] : k \in FailureKinds}
    \cup {[kind |-> "ok", data |-> d] :
            d \in UNION {[1..n -> RawResults] : n \in 0..MaxResults}}

\* the exception classes each raised exception is an instance of
Ancestors(exc) ==
    CASE exc = "Timeout" -> {"Timeout", "RequestException", "Exception"}
      [] exc \in {"ConnectionError", "HTTPError"} -> {exc, "RequestException", "Exception"}
      [] exc = "JSONDecodeError" ->
            {"JSONDecodeError", "RequestException", "ValueError", "Exception"}
      [] OTHER -> {exc, "Exception"}

\* the except clauses of search_address_suggestions
SuggestHandlers == {"Timeout", "RequestException", "KeyError", "ValueError", "Exception"}

\* `if not query or len(query) < 2:`
ShortQueryEmptyOnly(query) == query = <<>>
ShortQuery(query) == query = <<>> \/ Len(query) < 2

\* one element of the suggestions list, fields evaluated in the dict's order
Candidate(r) ==
    [display_name |-> IF r.display_name = "missing" THEN "" ELSE r.display_name,
     lat |-> Float(r.lat), lon |-> Float(r.lon)]

ResultError(r) ==
    IF FieldError(r.lat) # "none" THEN FieldError(r.lat) ELSE FieldError(r.lon)

\* the loop over data: the suggestions collected and the exception that ended it
RECURSIVE CollectFrom(_, _, _)
CollectFrom(data, i, acc) ==
    IF i > Len(data) THEN [exc |-> "none", out |-> acc]
    ELSE IF ResultError(data[i]) # "none"
    THEN [exc |-> ResultError(data[i]), out |-> acc]
    ELSE CollectFrom(data, i + 1, Append(acc, Candidate(data[i])))

\* what each except clause returns
OnErrorKeep(collected) == collected
OnError(collected) == <<>>

\* the try body: the exception raised ("none" if none) and the list built
SuggestBody(resp) ==
    IF resp.kind = "ok" THEN CollectFrom(resp.data, 1, <<>>)
    ELSE [exc |-> IF resp.kind = "NotAList" THEN "AttributeError" ELSE resp.kind,
          out |-> <<>>]

SearchAddressSuggestions(query, limit, resp) ==
    IF ShortQuery(query)
    THEN [ret |-> <<>>, requests |-> 0, raised |-> FALSE]
    ELSE LET b == SuggestBody(resp)
         IN  IF b.exc = "none"
             THEN [ret |-> b.out, requests |-> 1, raised |-> FALSE]
             ELSE IF Ancestors(b.exc) \cap SuggestHandlers # {}
             THEN [ret |-> OnError(b.out), requests |-> 1, raised |-> FALSE]
             ELSE [ret |-> <<>>, requests |-> 1, raised |-> TRUE]

\* limit=10 at the call of line 247
SuggestLimit == 10

NoLookup == [src |-> "none", query |-> <<>>, kind |-> "none", malformed |-> FALSE,
             collected |-> 0, ret |-> <<>>, requests |-> 0, raised |-> FALSE]

\* a response whose payload holds a candidate without lat/lon or with a value
\* that is no number
Malformed(resp) ==
    /\ resp.kind = "ok"
    /\ \E i \in 1..Len(resp.data) :
          \/ resp.data[i].lat \notin {"48", "95"}
          \/ resp.data[i].lon # "2"

\* the well-formed candidates that precede the first malformed one
LeadingGood(resp) ==
    IF Malformed(resp)
    THEN (CHOOSE i \in 1..Len(resp.data) :
             /\ (resp.data[i].lat \notin {"48", "95"} \/ resp.data[i].lon # "2")
             /\ \A j \in 1..(i - 1) :
                   resp.data[j].lat \in {"48", "95"} /\ resp.data[j].lon = "2") - 1
    ELSE 0

LookupRecord(src, query, resp, r) ==
    [src |-> src, query |-> query,
     kind |-> IF r.requests = 0 THEN "none" ELSE resp.kind,
     malformed |-> r.requests > 0 /\ Malformed(resp),
     collected |-> IF r.requests > 0 THEN LeadingGood(resp) ELSE 0,
     ret |-> r.ret, requests |-> r.requests, raised |-> r.raised]

GeoInit ==
    /\ address_query = <<>>
    /\ address_suggestions = <<>>
    /\ geo = NoLookup

(***************************************************************************)
(* process_meteo_data                                                      *)
(***************************************************************************)

MaxLen == 2

\* a JSON value of the hourly arrays: null or a number
Null == [null |-> TRUE, v |-> 0]
Num(v) == [null |-> FALSE, v |-> v]

\* an entry of the "time" array: an ISO timestamp of day d, hour h
\* ("2024-06-0dThh:00"), null, or a string that is no timestamp
TimeIso(d, h) == [kind |-> "iso", d |-> d, h |-> h]
TimeNull == [kind |-> "null", d |-> 0, h |-> 0]
TimeBad == [kind |-> "bad", d |-> 0, h |-> 0]

RawTimes == {TimeIso(1, 0), TimeIso(1, 23), TimeIso(2, 0), TimeNull, TimeBad}
RawAir == {Null, Num(50), Num(60)}
RawSoil == {Null, Num(1)}

SeqsUpTo(S, n) == UNION {[1..k -> S] : k \in 0..n}

\* api_data: None, or the three arrays of its "hourly" object (a missing
\* object or key reads as the empty list, by the .get defaults)
NoData == [none |-> TRUE, time |-> <<>>, air |-> <<>>, soil |-> <<>>]
RawRecords ==
    {[none |-> FALSE, time |-> t, air |-> a, soil |-> m] :
        t \in SeqsUpTo(RawTimes, MaxLen), a \in SeqsUpTo(RawAir, MaxLen),
        m \in SeqsUpTo(RawSoil, MaxLen)}

\* pd.to_datetime of one entry: hours since the start of day 0; NaT for null
ToDatetime(t) == IF t.kind = "null" THEN Null ELSE Num(t.d * 24 + t.h)

\* a dropna that keeps every row
DropNaKeepAll(rows) == rows

\* df.dropna(): the rows without a null, in their order
DropNa(rows) ==
    SelectSeq(rows, LAMBDA r : ~r.datetime.null /\ ~r.humidity_air.null
                                  /\ ~r.humidity_soil.null)

\* pd.DataFrame({...}): the three columns zipped by position
DataFrame(times, air, soil) ==
    [i \in 1..Len(times) |->
        [datetime |-> ToDatetime(times[i]),
         humidity_air |-> air[i],
         humidity_soil |-> soil[i]]]

NotProcessed == [status |-> "unprocessed", rows |-> <<>>, msg |-> "none",
                 raised |-> FALSE]
NoFrame(msg, raised) == [status |-> "none", rows |-> <<>>, msg |-> msg,
                         raised |-> raised]

ProcessMeteoData(api) ==
    IF api.none THEN NoFrame("none", FALSE)
    ELSE IF api.time = <<>> \/ api.air = <<>> \/ api.soil = <<>>
    THEN NoFrame("incomplete", FALSE)
    ELSE IF \/ \E i \in 1..Len(api.time) : api.time[i].kind = "bad"
            \/ Len(api.air) # Len(api.time)
            \/ Len(api.soil) # Len(api.time)
    THEN \* pd.to_datetime or pd.DataFrame raises
         IF ExceptException(TRUE) THEN NoFrame("error", FALSE)
         ELSE NoFrame("none", TRUE)
    ELSE LET kept == DropNa(DataFrame(api.time, api.air, api.soil))
         IN  IF kept = <<>> THEN NoFrame("no_valid", FALSE)
             ELSE [status |-> "df", rows |-> kept, msg |-> "none", raised |-> FALSE]

(***************************************************************************)
(* fetch_open_meteo_data                                                   *)
(***************************************************************************)

\* what requests.get, raise_for_status and response.json() make of the
\* service's answer: an exception, or a decoded body of one of four shapes
\*   "null_body"    the JSON value null
\*   "no_hourly"    an object without the key "hourly"
\*   "hourly_null"  an object whose "hourly" is null
\*   "hourly"       an object whose "hourly" is an object; rec holds its arrays
FetchFailures == {"Timeout", "ConnectionError", "HTTPError", "JSONDecodeError"}
HttpStatuses == {400, 500}
NoStatus == 0

Upstream(kind, status, shape, rec) ==
    [kind |-> kind, status |-> status, shape |-> shape, rec |-> rec]

Upstreams ==
    {Upstream(k, NoStatus, "none", NoData) : k \in FetchFailures \ {"HTTPError"}}
        \cup {Upstream("HTTPError", c, "none", NoData) : c \in HttpStatuses}
        \cup {Upstream("ok", NoStatus, sh, NoData) :
                    sh \in {"null_body", "no_hourly", "hourly_null"}}
        \cup {Upstream("ok", NoStatus, "hourly", r) : r \in RawRecords}

NoUpstream == Upstream("none", NoStatus, "none", NoData)

\* the except clauses of fetch_open_meteo_data, in their order
FetchHandlers == <<"Timeout", "HTTPError", "RequestException", "Exception">>

\* the first except clause that matches the exception
RECURSIVE FirstHandler(_, _)
FirstHandler(exc, i) ==
    IF i > Len(FetchHandlers) THEN "none"
    ELSE IF FetchHandlers[i] \in Ancestors(exc) THEN FetchHandlers[i]
    ELSE FirstHandler(exc, i + 1)

\* `not hourly.get(name)`: the key is missing or its array is empty
FalsyNever(arr) == FALSE
Falsy(arr) == arr = <<>>

\* the outcome of one call: the value returned, the st.* call that reported
\* it (level) and its text (msg), the requests.get calls made, and whether an
\* exception left the function
FetchResult(ret, level, msg, raised) ==
    [ret |-> ret, level |-> level, msg |-> msg, requests |-> 1, raised |-> raised]

NotFetched ==
    [ret |-> NoData, level |-> "none", msg |-> "none", requests |-> 0,
     raised |-> FALSE]

\* the exception raised in the try body ("none" if it runs to a return)
FetchBodyError(resp) ==
    IF resp.kind # "ok" THEN resp.kind
    ELSE IF resp.shape = "null_body" THEN "TypeError"
    ELSE IF resp.shape = "hourly_null" THEN "AttributeError"
    ELSE "none"

\* the text shown by the except clause h
HandlerMessage(h, resp) ==
    CASE h = "Timeout" -> "timeout"
      [] h = "HTTPError" -> IF resp.status = 400 THEN "http_400" ELSE "http_other"
      [] h = "RequestException" -> "connexion"
      [] h = "Exception" -> "inattendue"

\* lat, lon and the two dates only go into the request's parameters
FetchOpenMeteoData(resp) ==
    LET exc == FetchBodyError(resp)
    IN  IF exc # "none"
        THEN LET h == FirstHandler(exc, 1)
             IN  IF h = "none" THEN FetchResult(NoData, "none", "none", TRUE)
                 ELSE FetchResult(NoData, "error", HandlerMessage(h, resp), FALSE)
        ELSE IF resp.shape = "no_hourly"
        THEN FetchResult(NoData, "error", "format", FALSE)
        ELSE IF Falsy(resp.rec.air) \/ Falsy(resp.rec.soil)
        THEN FetchResult(NoData, "warning", "indisponibles", FALSE)
        ELSE FetchResult(resp.rec, "none", "none", FALSE)

MeteoIdle ==
    /\ api_data = NoData
    /\ df = NotProcessed
    /\ upstream = NoUpstream
    /\ fetched = NotFetched

(***************************************************************************)
(* The sidebar: the history period, lines 326-344.  A date is the number   *)
(* of its day; timedelta(days=n) is the integer n.                         *)
(***************************************************************************)

\* how many days before today the pickers reach
MaxBack == 9
\* the days the process lives through after its first
MaxToday == 2
\* timedelta(days=7), the default length of the period
Lookback == 7

\* what a date picker lets the user return: no date after max_value
Selectable(max_value) == (today - MaxBack)..max_value

\* lines 342-344: a start on or after the end becomes the day before the end
CorrectStartNever(start, end) == start
CorrectStart(start, end) == IF start >= end THEN end - 1 ELSE start

NoPeriod == [status |-> "none", start |-> 0, end |-> 0]
Period(start, end) == [status |-> "fetched", start |-> start, end |-> end]
Rejected == [status |-> "rejected", start |-> 0, end |-> 0]

DatesInit ==
    /\ today = 0
    /\ date_end = 0
    /\ date_start = 0 - Lookback
    /\ period = NoPeriod

(***************************************************************************)
(* geocode_address and the sidebar's location block, lines 207-324.        *)
(* Coordinates are held in tenths of a degree.                             *)
(***************************************************************************)

Tenths(degrees) == 10 * degrees

\* 47.5 and 2.0
DEFAULT_LATITUDE == 475
DEFAULT_LONGITUDE == 20

\* min_value and max_value of the two number inputs
LatitudeRange == (0 - 900)..900
LongitudeRange == (0 - 1800)..1800

\* numbers the user types into the two number inputs
GpsLats == {900}
GpsLons == {0 - 1800}

\* geocode_address asks for one result and reads data[0] only
GeocodeResponses ==
    {[kind |-> k, data |-> <<>>] : k \in FailureKinds}
        \cup {[kind |-> "ok", data |-> d] :
                    d \in {<<>>} \cup {<<r>> : r \in RawResults}}
NoResponse == [kind |-> "none", data |-> <<>>]

\* the except clauses of geocode_address
GeocodeHandlers == {"Timeout", "RequestException", "KeyError", "ValueError",
                    "Exception"}

\* what geocode_address returns: None or a dict of lat, lon (degrees) and
\* display_name; the requests.get calls made; whether an exception left it
NoGeocode == [none |-> TRUE, lat |-> 0, lon |-> 0, display_name |-> "",
              requests |-> 0, raised |-> FALSE]
GeocodeNone(raised) == [NoGeocode EXCEPT !.requests = 1, !.raised = raised]

\* the exception raised in the try body ("none" if it runs to a return)
GeocodeBodyError(resp) ==
    IF resp.kind = "NotAList" THEN "KeyError"
    ELSE IF resp.kind # "ok" THEN resp.kind
    ELSE IF resp.data = <<>> THEN "none"
    ELSE ResultError(resp.data[1])

GeocodeAddress(address, resp) ==
    LET exc == GeocodeBodyError(resp)
    IN  IF exc # "none"
        THEN GeocodeNone(Ancestors(exc) \cap GeocodeHandlers = {})
        ELSE IF resp.data = <<>> THEN GeocodeNone(FALSE)
        ELSE [none |-> FALSE,
              lat |-> Float(resp.data[1].lat), lon |-> Float(resp.data[1].lon),
              display_name |-> IF resp.data[1].display_name = "missing"
                               THEN "address" ELSE resp.data[1].display_name,
              requests |-> 1, raised |-> FALSE]

\* lines 268-277: the coordinates after the selectbox; sel = 0 is its
\* placeholder
SelectSuggestion(suggestions, sel, lat, lon) ==
    IF sel \in 1..Len(suggestions)
    THEN <<Tenths(suggestions[sel].lat), Tenths(suggestions[sel].lon)>>
    ELSE <<lat, lon>>

\* lines 287-292: `if coords:` replaces the coordinates
ApplyCoordsAlways(coords, lat, lon) == <<Tenths(coords.lat), Tenths(coords.lon)>>
ApplyCoords(coords, lat, lon) ==
    IF coords.none THEN <<lat, lon>>
    ELSE <<Tenths(coords.lat), Tenths(coords.lon)>>

\* the session's address text and suggestions after the address field,
\* lines 243-252: what some lookup of the text returned
SessionLookups ==
    {<<q, <<>>>> : q \in {x \in Queries : Len(x) < 2}}
        \cup {<<q, SearchAddressSuggestions(q, SuggestLimit, resp).ret>> :
                    q \in {x \in Queries : Len(x) >= 2}, resp \in Responses}

NoLocation ==
    [how |-> "none", sel |-> 0, clicked |-> FALSE, called |-> FALSE,
     resp |-> NoResponse, coords |-> NoGeocode,
     passed |-> FALSE, lat |-> 0, lon |-> 0]

LocInit ==
    /\ latitude = DEFAULT_LATITUDE
    /\ longitude = DEFAULT_LONGITUDE
    /\ loc = NoLocation

SidebarIdle == DatesInit /\ LocInit

(***************************************************************************)
(* The store on its own: the three functions called in any order, between  *)
(* script reruns and changes of the environment.                           *)
(***************************************************************************)

NoCall == [op |-> "none", arg |-> NONE, ret |-> NONE, raised |-> FALSE,
           handle |-> NONE, cached |-> FALSE, inits |-> 0, net |-> "none",
           remote |-> FALSE, stored |-> NONE, found |-> FALSE, err |-> NONE]

\* the record of a call: g is the outcome of its get_firebase_app
CallRecord(op, arg, ret, raised, g, net, remote) ==
    [op |-> op, arg |-> arg, ret |-> ret, raised |-> raised, handle |-> g.ret,
     cached |-> firebase_app # NONE, inits |-> g.inits, net |-> net,
     remote |-> remote, stored |-> vanne[ReadField], found |-> IsFile(credFile),
     err |-> g.err]

\* the effect of a call's get_firebase_app on the process
ApplyGet(g) ==
    /\ firebase_app' = g.app
    /\ firebase_error' = g.err
    /\ fb_apps' = g.apps
    /\ initCount' = initCount + g.inits
    /\ initCred' = IF g.inits > 0 THEN credFile ELSE initCred
    /\ reinit' = (reinit \/ g.reinit)

DashInit ==
    /\ pc = "idle"
    /\ firebase_ok = FALSE
    /\ etat_actuel = "unset"
    /\ nouveau_etat = "unset"
    /\ toggle_value = "unset"
    /\ ss_vanne_etat = "unset"
    /\ render = [reads |-> 0, writes |-> 0, defaults |-> 0, readRet |-> "unset",
                 written |-> "unset", writeRet |-> "unset", ssBefore |-> "unset"]

StoreInit ==
    /\ credFile \in CredStates
    /\ sdk \in BOOLEAN
    /\ fb_apps = {}
    /\ vanne \in {[f \in Fields |-> IF f = "etat" THEN v ELSE NONE] : v \in FlagValues}
    /\ firebase_app = NONE
    /\ firebase_error = NONE
    /\ initCount = 0
    /\ initCred = "none"
    /\ reinit = FALSE
    /\ last = NoCall
    /\ prev = NoCall

Init == StoreInit /\ DashInit /\ GeoInit /\ MeteoIdle /\ SidebarIdle

\* the script is executed again: lines 27-28 reset the module's cache
Rerun ==
    /\ firebase_app' = NONE
    /\ firebase_error' = NONE
    /\ UNCHANGED <<credFile, sdk, fb_apps, vanne, initCount, initCred, reinit,
                   last, prev>>
    /\ UNCHANGED <<dashVars, geoVars, meteoVars, sidebarVars>>

\* the credential file is created, replaced or removed
CredChange ==
    /\ \E c \in CredStates : c # credFile /\ credFile' = c
    /\ UNCHANGED <<sdk, fb_apps, vanne, firebase_app, firebase_error, initCount,
                   initCred, reinit, last, prev>>
    /\ UNCHANGED <<dashVars, geoVars, meteoVars, sidebarVars>>

\* another dashboard instance writes the flag
ExternalWrite ==
    /\ \E v \in Bools :
          /\ v # vanne["etat"]
          /\ vanne' = [vanne EXCEPT !["etat"] = v]
          /\ last' = [NoCall EXCEPT !.op = "external", !.arg = v]
    /\ prev' = last
    /\ UNCHANGED <<credFile, sdk, fb_apps, firebase_app, firebase_error, initCount,
                   initCred, reinit>>
    /\ UNCHANGED <<dashVars, geoVars, meteoVars, sidebarVars>>

CallGetApp ==
    /\ LET g == GetFirebaseApp(firebase_app, firebase_error, fb_apps, credFile, sdk)
       IN  /\ ApplyGet(g)
           /\ last' = CallRecord("get", NONE, g.ret, g.raised, g, "none", FALSE)
    /\ prev' = last
    /\ UNCHANGED <<credFile, sdk, vanne>>
    /\ UNCHANGED <<dashVars, geoVars, meteoVars, sidebarVars>>

CallRead ==
    /\ \E net \in NetRead :
         LET r == FirebaseGetVanneEtat(firebase_app, firebase_error, fb_apps,
                                       credFile, sdk, vanne, net)
         IN  /\ ApplyGet(r.g)
             /\ last' = CallRecord("read", NONE, r.ret, r.raised, r.g, net, r.remote)
    /\ prev' = last
    /\ UNCHANGED <<credFile, sdk, vanne>>
    /\ UNCHANGED <<dashVars, geoVars, meteoVars, sidebarVars>>

CallWrite ==
    /\ \E etat \in Bools, net \in NetWrite :
         LET w == FirebaseSetVanneEtat(firebase_app, firebase_error, fb_apps,
                                       credFile, sdk, vanne, etat, net)
         IN  /\ ApplyGet(w.g)
             /\ vanne' = w.node
             /\ last' = CallRecord("write", etat, w.ret, w.raised, w.g, net, w.remote)
    /\ prev' = last
    /\ UNCHANGED <<credFile, sdk>>
    /\ UNCHANGED <<dashVars, geoVars, meteoVars, sidebarVars>>

StoreNext == Rerun \/ CredChange \/ ExternalWrite \/ CallGetApp \/ CallRead \/ CallWrite

SpecStore == Init /\ [][StoreNext]_vars

(***************************************************************************)
(* Claims about the store, checked under SpecStore                         *)
(***************************************************************************)

StoreCalls == {"get", "read", "write"}

\* C1: over any sequence of calls, reruns included, initialize_app succeeds at
\* most once and is never invoked again once the default app exists; every
\* handle a call returns, and the cached one, is the one registered app, and a
\* call made once the app exists initialises nothing.
C1_InitializedAtMostOnce ==
    /\ initCount <= 1
    /\ ~reinit
    /\ Cardinality(fb_apps) = initCount
    /\ firebase_app # NONE => firebase_app \in fb_apps
    /\ (last.op \in StoreCalls /\ last.handle # NONE) => last.handle \in fb_apps
    /\ (last.op \in StoreCalls /\ prev.op \in StoreCalls /\ prev.handle # NONE)
          => (last.inits = 0 /\ last.handle \in {NONE, prev.handle})

\* a call after a rerun emptied the cache got the already initialised app back
C1_Witness ==
    /\ last.op = "get" /\ ~last.cached /\ last.inits = 0
    /\ last.handle = "app" /\ initCount = 1

\* C2 as stated: get_firebase_app returns a handle if and only if the client
\* has initialised successfully with a credential file found and valid.
C2_Original ==
    last.op = "get" =>
        ((last.handle # NONE) <=> (fb_apps # {} /\ initCred = "valid"))

\* C2 amended: get_firebase_app never raises; a handle is returned only if the
\* client initialised successfully with a credential file found and valid at
\* that time; a call that finds no cached handle returns one if and only if
\* the file is present at that call and the client is initialised, and
\* otherwise returns None with a diagnostic in _firebase_error.
C2_AvailableIffFoundAndInitialized ==
    last.op = "get" =>
        /\ ~last.raised
        /\ last.ret = last.handle
        /\ last.handle # NONE => (fb_apps # {} /\ initCred = "valid")
        /\ last.cached => last.handle # NONE
        /\ ~last.cached =>
              /\ (last.handle # NONE) <=> (last.found /\ fb_apps # {})
              /\ last.handle = NONE => last.err \in {"introuvable", "exception"}
              /\ last.handle # NONE => last.err = NONE
              /\ ~last.found => last.err = "introuvable"

\* the client is initialised, the file is gone, and the call reports unavailable
C2_Witness ==
    /\ last.op = "get" /\ ~last.cached /\ last.handle = NONE
    /\ fb_apps # {} /\ ~last.found /\ last.err = "introuvable"

\* C3: firebase_set_vanne_etat never raises; it returns False when the store
\* is unavailable or the remote update fails, and True only when the update
\* was issued and completed, the flag then holding the value written.
C3_WriteFlagNeverRaises ==
    last.op = "write" =>
        /\ ~last.raised
        /\ last.ret \in Bools
        /\ last.handle = NONE => (last.ret = "False" /\ ~last.remote)
        /\ last.net # "ok" => last.ret = "False"
        /\ last.ret = "True" =>
              (last.handle # NONE /\ last.remote /\ last.net = "ok"
                  /\ vanne["etat"] = last.arg)

\* an available store whose remote update failed
C3_Witness ==
    /\ last.op = "write" /\ last.handle # NONE /\ last.remote
    /\ last.net = "fail" /\ last.ret = "False"

\* C4: firebase_get_vanne_etat never raises; it returns None when the store is
\* unavailable or the remote read fails, and otherwise the value stored at
\* /vanne/etat.
C4_ReadFlagNeverRaises ==
    last.op = "read" =>
        /\ ~last.raised
        /\ last.handle = NONE => (last.ret = NONE /\ ~last.remote)
        /\ (last.handle # NONE /\ last.net # "ok") => last.ret = NONE
        /\ (last.handle # NONE /\ last.net = "ok") =>
              (last.remote /\ last.ret = vanne["etat"])

\* an available store whose remote read failed while the flag is set
C4_Witness ==
    /\ last.op = "read" /\ last.handle # NONE /\ last.remote
    /\ last.net = "fail" /\ last.ret = NONE /\ vanne["etat"] = "True"

\* C7 as stated: on an available store, a write that returned True followed
\* immediately by a read returns the value written.
C7_Original ==
    (prev.op = "write" /\ prev.ret = "True" /\ last.op = "read"
        /\ last.handle # NONE) => last.ret = prev.arg

\* C7 amended: on an available store, a write that returned True followed
\* immediately by a read returns the value written whenever that remote read
\* succeeds, and None when the remote read fails.
C7_WriteThenRead ==
    (prev.op = "write" /\ prev.ret = "True" /\ last.op = "read"
        /\ last.handle # NONE) =>
            last.ret = IF last.net = "ok" THEN prev.arg ELSE NONE

\* writeFlag(true) returned True and the read that follows returns True
C7_Witness ==
    /\ prev.op = "write" /\ prev.ret = "True" /\ prev.arg = "True"
    /\ last.op = "read" /\ last.handle # NONE /\ last.net = "ok"
    /\ last.ret = "True"

(***************************************************************************)
(* The valve section of the dashboard script (lines 489-519), one script   *)
(* run after another; the environment acts between the steps of a run.     *)
(***************************************************************************)

\* `if etat_actuel is None: etat_actuel = False`
ApplyDefault(r) == IF r = NONE THEN "False" ELSE r

\* lines 503-506: vanne_etat is set when missing from the session, then set again
SyncSessionOnce(ss, etat) == IF ss = "unset" THEN etat ELSE ss
SyncSession(ss, etat) == etat

\* `if nouveau_etat != etat_actuel:`
DiffersAlways(a, b) == TRUE
Differs(a, b) == a # b

NewRender(ss) ==
    [reads |-> 0, writes |-> 0, defaults |-> 0, readRet |-> "unset",
     written |-> "unset", writeRet |-> "unset", ssBefore |-> ss]

\* a browser session starts: its session state is empty
NewSession ==
    /\ pc = "idle"
    /\ ss_vanne_etat # "unset"
    /\ ss_vanne_etat' = "unset"
    /\ UNCHANGED <<pc, firebase_ok, etat_actuel, nouveau_etat, toggle_value, render>>
    /\ UNCHANGED <<storeVars, geoVars, meteoVars, sidebarVars>>

\* the script starts over: module globals and locals are fresh
StartRun ==
    /\ pc = "idle"
    /\ pc' = "check"
    /\ firebase_app' = NONE
    /\ firebase_error' = NONE
    /\ firebase_ok' = FALSE
    /\ etat_actuel' = "unset"
    /\ nouveau_etat' = "unset"
    /\ toggle_value' = "unset"
    /\ render' = NewRender(ss_vanne_etat)
    /\ UNCHANGED <<credFile, sdk, fb_apps, vanne, initCount, initCred, reinit,
                   last, prev, ss_vanne_etat>>
    /\ UNCHANGED <<geoVars, meteoVars, sidebarVars>>

\* line 489: firebase_ok = get_firebase_app() is not None
CheckFirebase ==
    /\ pc = "check"
    /\ LET g == GetFirebaseApp(firebase_app, firebase_error, fb_apps, credFile, sdk)
       IN  /\ ApplyGet(g)
           /\ last' = CallRecord("get", NONE, g.ret, g.raised, g, "none", FALSE)
           /\ firebase_ok' = (g.ret # NONE)
           /\ pc' = IF g.ret # NONE THEN "read" ELSE "end"
    /\ prev' = last
    /\ UNCHANGED <<credFile, sdk, vanne, etat_actuel, nouveau_etat, toggle_value,
                   ss_vanne_etat, render>>
    /\ UNCHANGED <<geoVars, meteoVars, sidebarVars>>

\* lines 500-506: read the flag, default it, synchronise the session state
ReadEtat ==
    /\ pc = "read"
    /\ \E net \in NetRead :
         LET r == FirebaseGetVanneEtat(firebase_app, firebase_error, fb_apps,
                                       credFile, sdk, vanne, net)
         IN  /\ ApplyGet(r.g)
             /\ last' = CallRecord("read", NONE, r.ret, r.raised, r.g, net, r.remote)
             /\ etat_actuel' = ApplyDefault(r.ret)
             /\ ss_vanne_etat' = SyncSession(ss_vanne_etat, ApplyDefault(r.ret))
             /\ render' = [render EXCEPT !.reads = @ + 1, !.readRet = r.ret,
                              !.defaults = @ + (IF r.ret = NONE THEN 1 ELSE 0)]
    /\ prev' = last
    /\ pc' = "toggle"
    /\ UNCHANGED <<credFile, sdk, vanne, firebase_ok, nouveau_etat, toggle_value>>
    /\ UNCHANGED <<geoVars, meteoVars, sidebarVars>>

\* line 510: the toggle is drawn with the session's value and returns the
\* position the user left it in
Toggle ==
    /\ pc = "toggle"
    /\ toggle_value' = ss_vanne_etat
    /\ \E v \in Bools : nouveau_etat' = v
    /\ pc' = "compare"
    /\ UNCHANGED <<firebase_ok, etat_actuel, ss_vanne_etat, render>>
    /\ UNCHANGED <<storeVars, geoVars, meteoVars, sidebarVars>>

\* lines 512-517: the toggle differs from the value read, the flag is written
WriteChanged ==
    /\ pc = "compare"
    /\ Differs(nouveau_etat, etat_actuel)
    /\ \E net \in NetWrite :
         LET w == FirebaseSetVanneEtat(firebase_app, firebase_error, fb_apps,
                                       credFile, sdk, vanne, nouveau_etat, net)
         IN  /\ ApplyGet(w.g)
             /\ vanne' = w.node
             /\ last' = CallRecord("write", nouveau_etat, w.ret, w.raised, w.g, net,
                                   w.remote)
             /\ ss_vanne_etat' = IF w.ret = "True" THEN nouveau_etat ELSE ss_vanne_etat
             /\ render' = [render EXCEPT !.writes = @ + 1, !.written = nouveau_etat,
                              !.writeRet = w.ret]
    /\ prev' = last
    /\ pc' = "end"
    /\ UNCHANGED <<credFile, sdk, firebase_ok, etat_actuel, nouveau_etat, toggle_value>>
    /\ UNCHANGED <<geoVars, meteoVars, sidebarVars>>

\* lines 518-519: the toggle shows the value read, nothing is written
NoWrite ==
    /\ pc = "compare"
    /\ ~Differs(nouveau_etat, etat_actuel)
    /\ pc' = "end"
    /\ UNCHANGED <<firebase_ok, etat_actuel, nouveau_etat, toggle_value,
                   ss_vanne_etat, render>>
    /\ UNCHANGED <<storeVars, geoVars, meteoVars, sidebarVars>>

\* the script run is over
EndRun ==
    /\ pc = "end"
    /\ pc' = "idle"
    /\ UNCHANGED <<firebase_ok, etat_actuel, nouveau_etat, toggle_value,
                   ss_vanne_etat, render>>
    /\ UNCHANGED <<storeVars, geoVars, meteoVars, sidebarVars>>

Next ==
    \/ StartRun \/ CheckFirebase \/ ReadEtat \/ Toggle \/ WriteChanged \/ NoWrite
    \/ EndRun \/ NewSession \/ CredChange \/ ExternalWrite

Spec == Init /\ [][Next]_vars

RenderDone == pc = "end"
ValveDrawn == pc \in {"compare", "end"} /\ firebase_ok

\* C5 as stated: in a run where the store is unavailable readFlag returns
\* None and the dashboard uses False as the valve state, the default being
\* applied exactly once.
C5_Original ==
    (RenderDone /\ ~firebase_ok) =>
        /\ render.reads = 1 /\ render.readRet = NONE
        /\ etat_actuel = "False"
        /\ render.defaults = 1

\* C5 amended: in a run where the store is unavailable the valve control is
\* not drawn: no read, no default and no valve state. In a run where the
\* store is available and the read returns None, False is used as the valve
\* state, the default being applied exactly once; the state used and shown is
\* always computed from that run's read, never the session's earlier value.
C5_FailSafeDefault ==
    /\ render.defaults <= 1
    /\ (pc \in {"toggle", "compare", "end"} /\ firebase_ok) =>
          /\ render.reads = 1
          /\ etat_actuel = (IF render.readRet = NONE THEN "False" ELSE render.readRet)
          /\ render.defaults = (IF render.readRet = NONE THEN 1 ELSE 0)
    /\ ValveDrawn => toggle_value = etat_actuel
    /\ (RenderDone /\ ~firebase_ok) =>
          /\ render.reads = 0 /\ render.defaults = 0
          /\ etat_actuel = "unset" /\ toggle_value = "unset"

\* the session held ON from an earlier run, this run's read returned None and
\* the toggle was drawn OFF
C5_Witness ==
    /\ RenderDone /\ firebase_ok /\ render.readRet = NONE
    /\ render.ssBefore = "True" /\ toggle_value = "False" /\ render.defaults = 1

\* C6 as stated: every script run reads the flag once and writes it at most
\* once, exactly when the toggle differs from the value read, and writes the
\* toggle's value.
C6_Original ==
    /\ render.reads <= 1 /\ render.writes <= 1
    /\ RenderDone =>
          /\ render.reads = 1
          /\ (render.writes = 1) <=> (nouveau_etat # etat_actuel)
          /\ render.writes = 1 => render.written = nouveau_etat

\* C6 amended: a script run in which the store is available reads the flag
\* exactly once, then writes it at most once, exactly when the toggle differs
\* from the value read (after the False default), and writes the toggle's
\* value; a run in which the store is unavailable neither reads nor writes.
C6_ReadCompareWriteOnce ==
    /\ render.reads <= 1 /\ render.writes <= 1
    /\ render.writes = 1 => render.reads = 1
    /\ (RenderDone /\ firebase_ok) =>
          /\ render.reads = 1
          /\ nouveau_etat \in Bools
          /\ etat_actuel = ApplyDefault(render.readRet)
          /\ (render.writes = 1) <=> (nouveau_etat # etat_actuel)
          /\ render.writes = 1 => render.written = nouveau_etat
    /\ (RenderDone /\ ~firebase_ok) => (render.reads = 0 /\ render.writes = 0)

\* a run that read ON, left the toggle ON and wrote nothing
C6_Witness ==
    /\ RenderDone /\ firebase_ok /\ render.reads = 1 /\ render.readRet = "True"
    /\ nouveau_etat = "True" /\ render.writes = 0

(***************************************************************************)
(* The suggestion lookup: the function called on any query, and the        *)
(* address field of the sidebar (lines 234-252).                           *)
(***************************************************************************)

StoreIdle ==
    /\ credFile = "absent"
    /\ sdk = FALSE
    /\ fb_apps = {}
    /\ vanne = [f \in Fields |-> NONE]
    /\ firebase_app = NONE
    /\ firebase_error = NONE
    /\ initCount = 0
    /\ initCred = "none"
    /\ reinit = FALSE
    /\ last = NoCall
    /\ prev = NoCall

InitGeo == StoreIdle /\ DashInit /\ GeoInit /\ MeteoIdle /\ SidebarIdle

\* search_address_suggestions(query, limit) on any query and any answer, called
\* on its own while the address field is empty
CallSuggest ==
    /\ address_query = <<>>
    /\ address_suggestions = <<>>
    /\ \E q \in Queries, resp \in Responses :
         geo' = LookupRecord("call", q, resp,
                             SearchAddressSuggestions(q, SuggestLimit, resp))
    /\ UNCHANGED <<address_query, address_suggestions>>
    /\ UNCHANGED <<storeVars, dashVars, meteoVars, sidebarVars>>

\* lines 243-249: two characters or more, and the text has changed
AddressLookup ==
    /\ \E input \in Queries, resp \in Responses :
         /\ input # <<>> /\ Len(input) >= 2
         /\ input # address_query
         /\ LET r == SearchAddressSuggestions(input, SuggestLimit, resp)
            IN  /\ address_suggestions' = r.ret
                /\ geo' = LookupRecord("input", input, resp, r)
         /\ address_query' = input
    /\ UNCHANGED <<storeVars, dashVars, meteoVars, sidebarVars>>

\* lines 243-245: two characters or more, and the text is the one looked up
AddressUnchanged ==
    /\ \E input \in Queries :
         /\ input # <<>> /\ Len(input) >= 2
         /\ input = address_query
         /\ geo' = [NoLookup EXCEPT !.src = "input", !.query = input,
                                    !.ret = address_suggestions]
    /\ UNCHANGED <<address_query, address_suggestions>>
    /\ UNCHANGED <<storeVars, dashVars, meteoVars, sidebarVars>>

\* lines 250-252: fewer than two characters
AddressShort ==
    /\ \E input \in Queries :
         /\ ~(input # <<>> /\ Len(input) >= 2)
         /\ Len(input) < 2
         /\ address_suggestions' = <<>>
         /\ address_query' = input
         /\ geo' = [NoLookup EXCEPT !.src = "input", !.query = input]
    /\ UNCHANGED <<storeVars, dashVars, meteoVars, sidebarVars>>

NextGeo == CallSuggest \/ AddressLookup \/ AddressUnchanged \/ AddressShort

SpecGeo == InitGeo /\ [][NextGeo]_vars

\* C8: for every query of fewer than two characters, the empty one included,
\* the lookup returns the empty sequence and issues no request, called
\* directly or through the address field, which then shows no suggestion.
C8_ShortQueryNoRequest ==
    (geo.src # "none" /\ Len(geo.query) < 2) =>
        /\ geo.ret = <<>>
        /\ geo.requests = 0
        /\ ~geo.raised
        /\ geo.src = "input" => address_suggestions = <<>>

\* the function was called on a one-character query
C8_Witness ==
    /\ geo.src = "call" /\ Len(geo.query) = 1
    /\ geo.ret = <<>> /\ geo.requests = 0

\* C9: the lookup never raises and issues at most one request per call; on a
\* timeout, a connection or HTTP error, an undecodable or malformed payload it
\* returns the empty sequence, whatever it had collected.
C9_SuggestNeverFails ==
    geo.src # "none" =>
        /\ ~geo.raised
        /\ geo.requests <= 1
        /\ (geo.requests = 1 /\ (geo.kind # "ok" \/ geo.malformed)) => geo.ret = <<>>

\* a payload whose first candidate was collected and whose second is malformed
C9_Witness ==
    /\ geo.src = "call" /\ geo.requests = 1 /\ geo.kind = "ok" /\ geo.malformed
    /\ geo.collected >= 1 /\ geo.ret = <<>>

(***************************************************************************)
(* The weather series: process_meteo_data applied to any raw record.       *)
(***************************************************************************)

InitMeteo ==
    /\ StoreIdle /\ DashInit /\ GeoInit /\ SidebarIdle
    /\ api_data \in RawRecords \cup {NoData}
    /\ df = NotProcessed
    /\ upstream = NoUpstream
    /\ fetched = NotFetched

\* line 481: df = process_meteo_data(api_data)
Process ==
    /\ df.status = "unprocessed"
    /\ df' = ProcessMeteoData(api_data)
    /\ UNCHANGED <<api_data, upstream, fetched>>
    /\ UNCHANGED <<storeVars, dashVars, geoVars, sidebarVars>>

NextMeteo == Process

SpecMeteo == InitMeteo /\ [][NextMeteo]_vars

\* a raw record with equal-length non-empty arrays, timestamps that parse and
\* no null
WellFormed(api) ==
    /\ ~api.none
    /\ Len(api.time) > 0
    /\ Len(api.air) = Len(api.time) /\ Len(api.soil) = Len(api.time)
    /\ \A i \in 1..Len(api.time) :
          api.time[i].kind = "iso" /\ ~api.air[i].null /\ ~api.soil[i].null

Ascending(rows) ==
    \A i, j \in 1..Len(rows) : i < j => rows[i].datetime.v <= rows[j].datetime.v

NoNullField(rows) ==
    \A i \in 1..Len(rows) :
        ~rows[i].datetime.null /\ ~rows[i].humidity_air.null
            /\ ~rows[i].humidity_soil.null

\* C10: for every well-formed raw record with equal-length non-empty arrays
\* and no null, process_meteo_data returns a series of the same length,
\* ascending by timestamp, with no null field.
C10_NormalizeWellFormed ==
    (df.status # "unprocessed" /\ WellFormed(api_data)) =>
        /\ df.status = "df"
        /\ Len(df.rows) = Len(api_data.time)
        /\ Ascending(df.rows)
        /\ NoNullField(df.rows)

\* the arrays of a raw record do not have one common length
Mismatched(api) ==
    Len(api.air) # Len(api.time) \/ Len(api.soil) # Len(api.time)

\* position i of a raw record holds a null in one of the three fields
NullAt(api, i) ==
    api.time[i].kind = "null" \/ api.air[i].null \/ api.soil[i].null

\* one of the three fields is null at every position
AllNull(api) ==
    /\ ~Mismatched(api) /\ Len(api.time) > 0
    /\ \A i \in 1..Len(api.time) : NullAt(api, i)

\* the positions of a raw record without a null, in ascending order
RECURSIVE KeptPositions(_, _)
KeptPositions(api, i) ==
    IF i > Len(api.time) THEN <<>>
    ELSE (IF NullAt(api, i) THEN <<>> ELSE <<i>>) \o KeptPositions(api, i + 1)

\* C11: process_meteo_data never raises; a raw record with mismatched array
\* lengths or with a null in every row yields no series; a series that is
\* returned is non-empty and holds exactly the rows of the record in which
\* none of the three fields is null, in their order.
C11_NormalizeFailsWithoutRaising ==
    (df.status # "unprocessed" /\ ~api_data.none) =>
        /\ ~df.raised
        /\ (Mismatched(api_data) \/ AllNull(api_data)) => df.status = "none"
        /\ df.status = "df" =>
              LET kept == KeptPositions(api_data, 1)
              IN  /\ ~Mismatched(api_data)
                  /\ kept # <<>>
                  /\ Len(df.rows) = Len(kept)
                  /\ \A k \in 1..Len(kept) :
                        /\ df.rows[k].datetime = ToDatetime(api_data.time[kept[k]])
                        /\ df.rows[k].humidity_air = api_data.air[kept[k]]
                        /\ df.rows[k].humidity_soil = api_data.soil[kept[k]]

\* two timestamps against one air value: pd.DataFrame raises, no series
C11_Witness ==
    /\ ~api_data.none
    /\ Len(api_data.time) = 2 /\ Len(api_data.air) = 1 /\ Len(api_data.soil) = 2
    /\ \A i \in 1..2 : api_data.time[i].kind = "iso"
    /\ df.status = "none" /\ ~df.raised

(***************************************************************************)
(* The weather section of the script, lines 479-481: one request to the    *)
(* service, answered in any way, then the processing of what it returned.  *)
(***************************************************************************)

InitFetch ==
    /\ StoreIdle /\ DashInit /\ GeoInit /\ SidebarIdle
    /\ api_data = NoData
    /\ df = NotProcessed
    /\ upstream \in Upstreams
    /\ fetched = NotFetched

\* line 480: api_data = fetch_open_meteo_data(latitude, longitude, ...)
Fetch ==
    /\ fetched.requests = 0
    /\ fetched' = FetchOpenMeteoData(upstream)
    /\ api_data' = fetched'.ret
    /\ UNCHANGED <<df, upstream>>
    /\ UNCHANGED <<storeVars, dashVars, geoVars, sidebarVars>>

\* line 481: df = process_meteo_data(api_data)
ProcessFetched ==
    /\ fetched.requests > 0 /\ ~fetched.raised
    /\ df.status = "unprocessed"
    /\ df' = ProcessMeteoData(api_data)
    /\ UNCHANGED <<api_data, upstream, fetched>>
    /\ UNCHANGED <<storeVars, dashVars, geoVars, sidebarVars>>

NextFetch == Fetch \/ ProcessFetched

SpecFetch == InitFetch /\ [][NextFetch]_vars

\* the answer holds an "hourly" object with both variables present and
\* non-empty
BothVariables(resp) ==
    /\ resp.kind = "ok" /\ resp.shape = "hourly"
    /\ resp.rec.air # <<>> /\ resp.rec.soil # <<>>

\* the answer holds an "hourly" object in which a variable is absent or empty
VariableMissing(resp) ==
    /\ resp.kind = "ok" /\ resp.shape = "hourly"
    /\ (resp.rec.air = <<>> \/ resp.rec.soil = <<>>)

\* C12: fetch_open_meteo_data returns a raw record only when the answer holds
\* an "hourly" object with both variables present and non-empty, and then it
\* returns that record; when the "hourly" object lacks a variable or holds it
\* empty, it returns None after a warning; every other failure returns None
\* after an error; every call makes exactly one request and never raises.
C12_FetchOutcomes ==
    fetched.requests > 0 =>
        /\ fetched.requests = 1
        /\ ~fetched.raised
        /\ ~fetched.ret.none <=> BothVariables(upstream)
        /\ ~fetched.ret.none => (fetched.ret = upstream.rec /\ fetched.level = "none")
        /\ fetched.level = "warning" <=> VariableMissing(upstream)
        /\ (fetched.ret.none /\ ~VariableMissing(upstream)) => fetched.level = "error"

\* an "hourly" object with timestamps and air humidity but no soil moisture
C12_Witness ==
    /\ upstream.kind = "ok" /\ upstream.shape = "hourly"
    /\ upstream.rec.time # <<>> /\ upstream.rec.air # <<>> /\ upstream.rec.soil = <<>>
    /\ fetched.requests = 1 /\ fetched.ret.none /\ fetched.level = "warning"

(***************************************************************************)
(* The history period: script runs with any dates the two pickers can      *)
(* return, over the days the process lives through.                        *)
(***************************************************************************)

\* lines 326-344 and 480: both pickers return a date, the start is
\* corrected, the period is passed to fetch_open_meteo_data.  The start is
\* the default or a date picked on an earlier run, any date up to max_value.
RunPeriod ==
    \E e \in Selectable(today) : \E s \in Selectable(e) :
        /\ date_end' = e
        /\ date_start' = s
        /\ period' = Period(CorrectStart(s, e), e)
        /\ UNCHANGED today
        /\ UNCHANGED <<locVars, storeVars, dashVars, geoVars, meteoVars>>

\* lines 326-338: the end picked lies before the default start, which
\* st.date_input refuses as a default above max_value; the run stops there
RunPeriodRejected ==
    \E e \in Selectable(today) :
        /\ today - Lookback > e
        /\ date_end' = e
        /\ period' = Rejected
        /\ UNCHANGED <<today, date_start>>
        /\ UNCHANGED <<locVars, storeVars, dashVars, geoVars, meteoVars>>

\* midnight passes
NextDay ==
    /\ today < MaxToday
    /\ today' = today + 1
    /\ UNCHANGED <<date_end, date_start, period>>
    /\ UNCHANGED <<locVars, storeVars, dashVars, geoVars, meteoVars>>

InitDates == StoreIdle /\ DashInit /\ GeoInit /\ MeteoIdle /\ SidebarIdle

NextDates == RunPeriod \/ RunPeriodRejected \/ NextDay

SpecDates == InitDates /\ [][NextDates]_vars

\* C13: every period passed to fetch_open_meteo_data has its start before its
\* end and its end no later than today, whatever dates the pickers returned.
C13_PeriodOrdered ==
    period.status = "fetched" =>
        /\ period.start < period.end
        /\ period.end <= today
        /\ period.end = date_end
        /\ date_start < date_end => period.start = date_start
        /\ date_start >= date_end => period.start = date_end - 1

\* the user picked the end date as the start date too
C13_Witness ==
    /\ period.status = "fetched"
    /\ date_start = date_end
    /\ period.start = date_end - 1 /\ period.end = date_end

(***************************************************************************)
(* The location: script runs in either search mode, over any address text  *)
(* and suggestions the session can hold.                                   *)
(***************************************************************************)

InitLoc ==
    /\ StoreIdle /\ DashInit /\ MeteoIdle /\ SidebarIdle
    /\ geo = NoLookup
    /\ \E held \in SessionLookups :
          address_query = held[1] /\ address_suggestions = held[2]

\* lines 224-297 and 480, mode "Adresse / Zone" with the address text left as
\* it is: the selectbox, the search button, the coordinates passed to the fetch
RunAddress ==
    \E sel \in 0..Len(address_suggestions), clicked \in BOOLEAN,
       resp \in GeocodeResponses :
        LET called == clicked /\ address_query # <<>>
            coords == IF called THEN GeocodeAddress(address_query, resp)
                      ELSE NoGeocode
            selected == SelectSuggestion(address_suggestions, sel,
                                         latitude, longitude)
            final == IF called /\ ~coords.raised
                     THEN ApplyCoords(coords, selected[1], selected[2])
                     ELSE selected
        IN  /\ called \/ resp = [kind |-> "ok", data |-> <<>>]
            /\ latitude' = final[1]
            /\ longitude' = final[2]
            /\ loc' = [how |-> "address", sel |-> sel, clicked |-> clicked,
                       called |-> called,
                       resp |-> IF called THEN resp ELSE NoResponse,
                       coords |-> coords,
                       passed |-> ~coords.raised,
                       lat |-> final[1], lon |-> final[2]]
            /\ UNCHANGED <<dateVars, storeVars, dashVars, geoVars, meteoVars>>

\* lines 299-324 and 480, mode "Coordonnées GPS": each number input holds the
\* session's value or what the user typed
RunGps ==
    /\ latitude \in LatitudeRange /\ longitude \in LongitudeRange
    /\ \E la \in GpsLats \cup {latitude}, lo \in GpsLons \cup {longitude} :
        /\ latitude' = la
        /\ longitude' = lo
        /\ loc' = [NoLocation EXCEPT !.how = "gps", !.passed = TRUE,
                                      !.lat = la, !.lon = lo]
    /\ UNCHANGED <<dateVars, storeVars, dashVars, geoVars, meteoVars>>

\* lines 300-309: st.number_input refuses a value outside min_value..max_value;
\* the run stops there
RunGpsRejected ==
    /\ latitude \notin LatitudeRange \/ longitude \notin LongitudeRange
    /\ loc' = [NoLocation EXCEPT !.how = "gps_rejected"]
    /\ UNCHANGED <<latitude, longitude>>
    /\ UNCHANGED <<dateVars, storeVars, dashVars, geoVars, meteoVars>>

NextLoc == RunAddress \/ RunGps \/ RunGpsRejected

SpecLoc == InitLoc /\ [][NextLoc]_vars

\* C14: the session's coordinates, and the pair passed to the fetch, lie in
\* [-90, 90] and [-180, 180] in every reachable state.
C14_CoordinatesInRange ==
    /\ latitude \in LatitudeRange /\ longitude \in LongitudeRange
    /\ loc.passed => (loc.lat \in LatitudeRange /\ loc.lon \in LongitudeRange)

\* a lookup answer without a usable first candidate
NoFirstCandidate(resp) ==
    \/ resp.kind # "ok"
    \/ resp.data = <<>>
    \/ resp.data[1].lat \notin {"48", "95"}
    \/ resp.data[1].lon # "2"

\* a script run in the address mode: what it leaves in the session, given
\* what the session held before it
C15_Run ==
    loc'.how = "address" =>
        /\ loc'.called <=> (loc'.clicked /\ address_query # <<>>)
        /\ loc'.called =>
              /\ ~loc'.coords.raised /\ loc'.coords.requests = 1
              /\ loc'.coords.none <=> NoFirstCandidate(loc'.resp)
        /\ (~loc'.called \/ loc'.coords.none) =>
              /\ loc'.sel = 0 => (latitude' = latitude /\ longitude' = longitude)
              /\ loc'.sel > 0 =>
                    /\ latitude' = Tenths(address_suggestions[loc'.sel].lat)
                    /\ longitude' = Tenths(address_suggestions[loc'.sel].lon)
        /\ (loc'.called /\ ~loc'.coords.none) =>
              /\ latitude' = Tenths(Float(loc'.resp.data[1].lat))
              /\ longitude' = Tenths(Float(loc'.resp.data[1].lon))

\* C15: in a run of the address mode, geocode_address returns None exactly
\* on an answer without a usable first candidate, and never raises; when it
\* was not called or returned None, the session's coordinates after the run
\* are those of the selected suggestion if one is selected and otherwise the
\* ones before the run; when it returned a candidate, they are that
\* candidate's.
C15_FailedLookupKeepsLocation == [][C15_Run]_vars

\* the search times out after the location had been moved off its default
C15_Witness ==
    /\ loc.how = "address" /\ loc.called /\ loc.sel = 0
    /\ loc.resp.kind = "Timeout" /\ loc.coords.none
    /\ latitude # DEFAULT_LATITUDE

=============================================================================
